---- MODULE Spec2Model ----
(***************************************************************************)
(* Model of beluga's spatial hash (beluga/algorithm/spatial_hash.hpp).     *)
(*                                                                         *)
(* A hash word is a tuple of `digits` bits, least significant bit first:   *)
(* bit j of the C++ word (0-based) is element j + 1 of the tuple.  Words   *)
(* keep their full width (32 or 64 bits).  The multiplication is done on   *)
(* little-endian bytes and the shifts on bits, so wrap-around is exact.    *)
(*                                                                         *)
(* A double that is a state coordinate or a resolution is a decimal        *)
(* fixed-point number: the integer n stands for n / 1000.  The quotient    *)
(* value / resolution is kept as an exact fraction, or as inf / nan when   *)
(* the resolution is zero.  On the inputs enumerated below the IEEE        *)
(* quotient has the same floor as the exact one.                           *)
(***************************************************************************)
EXTENDS Integers, Sequences, FiniteSets, TLC

\* ------------------------------------------------------------------ bounds

\* Largest number of axes of the array / tuple hashers of SpecHash.
MaxDim == 2
\* Largest number of hasher objects alive in Spec.
MaxHashers == 2
\* Largest number of axes of the instantiations enumerated by SpecShift.
MaxAxes == 66
\* Largest magnitude of a floored quotient on the enumerated inputs.
MaxBucket == 8

\* ------------------------------------------------------------------- words

\* The bits of a little-endian sequence of bytes.
BitsOfBytes(bytes) ==
  [j \in 1..(8 * Len(bytes)) |->
      (bytes[((j - 1) \div 8) + 1] \div (2 ^ ((j - 1) % 8))) % 2]

\* operator^ on two words.
BitXor(a, b) == [j \in 1..Len(a) |-> (a[j] + b[j]) % 2]

\* operator| on two words.
BitOr(a, b) == [j \in 1..Len(a) |-> IF a[j] = 1 \/ b[j] = 1 THEN 1 ELSE 0]

\* x << s on an unsigned word: the top s bits are lost, zeros enter below.
ShiftLeft(x, s) == [j \in 1..Len(x) |-> IF j - s >= 1 THEN x[j - s] ELSE 0]

\* x >> s on an unsigned word: the low s bits are lost, zeros enter on top.
ShiftRight(x, s) == [j \in 1..Len(x) |-> IF j + s <= Len(x) THEN x[j + s] ELSE 0]

\* Column k (0-based) of the schoolbook product of two byte sequences.
RECURSIVE MulColumn(_, _, _, _)
MulColumn(a, b, k, i) ==
  IF i > k THEN 0 ELSE a[i + 1] * b[k - i + 1] + MulColumn(a, b, k, i + 1)

RECURSIVE MulFrom(_, _, _, _)
MulFrom(a, b, k, carry) ==
  IF k = Len(a) THEN <<>>
  ELSE LET c == MulColumn(a, b, k, 0) + carry
       IN  <<c % 256>> \o MulFrom(a, b, k + 1, c \div 256)

\* operator* on two unsigned words of the same width, given as bytes: the
\* product modulo 2^W (the bytes above the width are dropped).
WordMul(a, b) == MulFrom(a, b, 0, 0)

\* ----------------------------------------------------------------- doubles

\* value / resolution on doubles (IEEE: a zero divisor gives inf or nan).
double_div(v, r) ==
  IF r # 0 THEN [cls |-> "finite", num |-> v, den |-> r]
  ELSE IF v = 0 THEN [cls |-> "nan", num |-> 0, den |-> 0]
  ELSE [cls |-> "inf", num |-> v, den |-> 0]

\* std::floor: toward negative infinity; inf and nan are returned as they are.
std_round(q) ==
  IF q.cls = "finite"
  THEN [cls |-> "finite", num |-> (2 * q.num + q.den) \div (2 * q.den), den |-> 1]
  ELSE q
std_ceil(q) ==
  IF q.cls = "finite" THEN [cls |-> "finite", num |-> -((-q.num) \div q.den), den |-> 1]
  ELSE q
std_trunc(q) ==
  IF q.cls = "finite"
  THEN [cls |-> "finite",
        num |-> IF (q.num < 0) # (q.den < 0) THEN -((-q.num) \div q.den) ELSE q.num \div q.den,
        den |-> 1]
  ELSE q
std_floor(q) ==
  IF q.cls = "finite" THEN [cls |-> "finite", num |-> q.num \div q.den, den |-> 1]
  ELSE q

\* The two's complement pattern of the integer n in W bits, as bytes.
\* |n| < 2^31, so the bytes from the fifth on are the sign.
TwosComplement(n, W) ==
  [j \in 1..(W \div 8) |->
      IF j <= 4 THEN (n \div (256 ^ (j - 1))) % 256
      ELSE IF n < 0 THEN 255 ELSE 0]

\* The patterns a float-to-integer conversion of an unrepresentable value leaves
\* on common targets: the minimum (x86 "integer indefinite"), zero (nan on
\* saturating targets) and the maximum (saturation of +inf).
IntMin(W) == [j \in 1..(W \div 8) |-> IF j = W \div 8 THEN 128 ELSE 0]
IntMax(W) == [j \in 1..(W \div 8) |-> IF j = W \div 8 THEN 127 ELSE 255]
IntZero(W) == [j \in 1..(W \div 8) |-> 0]

\* static_cast<signed_type>(std::floor(value)) followed by
\* static_cast<unsigned_type>(signed_value): the set of outcomes.  A finite
\* floor (always inside the signed range here) converts to its two's
\* complement pattern.  inf and nan are not representable: the conversion is
\* undefined behaviour, which leaves some pattern or traps (a sanitized build).
unsigned_value(f, W) ==
  IF f.cls = "finite"
  THEN {[ub |-> FALSE, trap |-> FALSE, bytes |-> TwosComplement(f.num, W)]}
  ELSE {[ub |-> TRUE, trap |-> FALSE, bytes |-> b] : b \in {IntMin(W), IntMax(W), IntZero(W)}}
       \cup {[ub |-> TRUE, trap |-> TRUE, bytes |-> IntZero(W)]}

\* ---------------------------------------------------------------- the hash

\* The golden ratio constants, as little-endian bytes:
\* 11400714819323198485 = 0x9E3779B97F4A7C15, 2654435769 = 0x9E3779B9.
kFib64 == <<21, 124, 74, 127, 185, 121, 55, 158>>
kFib32 == <<185, 121, 55, 158>>

\* Whether the kFib lambda compiles for a std::size_t of W bits: the else
\* branch is a static_assert that is always false.
kFibAnyWidth(W) == TRUE
kFibDefined(W) == W = 64 \/ W = 32

kFib(W) == IF W = 64 THEN kFib64 ELSE kFib32

\* The unsigned values the enumerated inputs can produce, per width.
UnsignedValues(W) ==
  {TwosComplement(n, W) : n \in (-MaxBucket)..MaxBucket}
    \cup {IntMin(W), IntMax(W), IntZero(W)}

\* kFib * unsigned_value, tabulated once per width.
kFibTimes ==
  [W \in {32, 64} |-> [u \in UnsignedValues(W) |-> BitsOfBytes(WordMul(kFib(W), u))]]

div_hashed_value(u, W) == kFibTimes[W][u]

\* The shifts floor_and_fibo_hash<N, I> performs: <<left amount, right amount>>
\* when N * I != 0, none otherwise.
ShiftsUnguarded(W, N, I) == <<N * I, W - N * I>>
Shifts(W, N, I) == IF N * I # 0 THEN <<N * I, W - N * I>> ELSE <<>>

\* floor_and_fibo_hash<N, I> from the unsigned value on: multiply, then rotate.
RotateShiftOnly(d, W, N, I) ==
  IF Shifts(W, N, I) # <<>> THEN ShiftLeft(d, Shifts(W, N, I)[1]) ELSE d
Rotate(d, W, N, I) ==
  IF Shifts(W, N, I) # <<>>
  THEN LET left_hash == ShiftLeft(d, Shifts(W, N, I)[1])
           right_hash == ShiftRight(d, Shifts(W, N, I)[2])
       IN  BitOr(left_hash, right_hash)
  ELSE d

floor_and_fibo_hash(u, W, N, I) == Rotate(div_hashed_value(u, W), W, N, I)

\* kBits of hash_impl: numeric_limits<size_t>::digits / sizeof...(Ids).
kBits(W, D) == W \div D

\* (E1 ^ ... ^ En), the fold expression of hash_impl.
RECURSIVE XorFold(_)
XorFold(terms) ==
  IF Len(terms) = 1 THEN Head(terms)
  ELSE BitXor(Head(terms), XorFold(Tail(terms)))

\* The conversions hash_impl's axes can see: one outcome per axis of
\* value[Ids] / resolution[Ids], floored and converted.
Conversions(value, resolution, W) ==
  LET outcomes == [i \in 1..Len(value) |->
                     unsigned_value(std_floor(double_div(value[i], resolution[i])), W)]
  IN  {c \in [1..Len(value) -> UNION {outcomes[i] : i \in 1..Len(value)}] :
         \A i \in 1..Len(value) : c[i] \in outcomes[i]}

\* The operands of the fold: floor_and_fibo_hash<kBits, Ids>(...) for each axis
\* (Ids = i - 1), given the conversions c.
AxisTerms(c, W) ==
  [i \in 1..Len(c) |-> floor_and_fibo_hash(c[i].bytes, W, kBits(W, Len(c)), i - 1)]

hash_impl(c, W) == XorFold(AxisTerms(c, W))

\* ------------------------------------------------------------- the hashers

\* spatial_hash<std::array<T, N>>: the constructor stores the resolution.
spatial_hash_array(resolution) == [shape |-> "array", resolution_ |-> resolution]

\* spatial_hash<Tuple<Types...>>: the constructor stores the resolution.
spatial_hash_tuple(resolution) == [shape |-> "tuple", resolution_ |-> resolution]

\* spatial_hash<Sophus::SE2d>(x, y, theta resolutions).
spatial_hash_se2_xyt(rx, ry, rt) ==
  [shape |-> "se2", underlying_hasher_ |-> spatial_hash_tuple(<<rx, ry, rt>>)]

\* spatial_hash<Sophus::SE2d>(linear, angular): delegates to the constructor above.
spatial_hash_se2_la_swapped(l, a) == spatial_hash_se2_xyt(l, a, a)
spatial_hash_se2_la(l, a) == spatial_hash_se2_xyt(l, l, a)

\* spatial_hash<Sophus::SE2d>(): the default member initializer {1., 1., 1.}.
spatial_hash_se2_default == [shape |-> "se2", underlying_hasher_ |-> spatial_hash_tuple(<<1000, 1000, 1000>>)]

\* The implicit copy constructor: a member-wise copy.
copy_stale(h) == IF h.shape = "se2" THEN spatial_hash_se2_default
                 ELSE [h EXCEPT !.resolution_ = [i \in 1..Len(h.resolution_) |-> 1000]]
copy(h) == h

\* The resolution vector a hasher holds.
Resolution(h) ==
  IF h.shape = "se2" THEN h.underlying_hasher_.resolution_ ELSE h.resolution_

\* A Sophus::SE2d state: its translation() and so2().log(), the angle.
SE2(x, y, theta) == [translation |-> <<x, y>>, so2_log |-> theta]

\* The value operator() hands to hash_impl: the array or tuple itself, or for a
\* pose make_tuple(position.x(), position.y(), state.so2().log()).
Operand(h, state) ==
  IF h.shape = "se2"
  THEN <<state.translation[1], state.translation[2], state.so2_log>>
  ELSE state

\* ------------------------------------------------------------------ inputs

\* The widths of std::size_t of the platforms a build may target.
Platforms == {16, 32, 64}

Threads == {1, 2}

\* Coordinates and resolutions of the grid of SpecHash (in thousandths).
AxisVals == {-1000, -300, 0, 300}
AxisRes == {1000, 500}
Grid(D) == [1..D -> AxisVals]
GridResolutions(D) ==
  {[i \in 1..D |-> r] : r \in AxisRes}
    \cup {[i \in 1..D |-> IF i % 2 = 1 THEN 1000 ELSE 500]}

\* The values of the negative-value scenario, for resolution (1.0).
ExampleLine == {<<-1000>>, <<-999>>, <<-300>>, <<0>>, <<300>>}
\* The arrays of the fixed-sequence scenario, for resolution (1.0, 1.0).
ExampleArrays == {<<1000, 2000>>, <<1400, 2900>>, <<2000, 2000>>}
\* The poses of the pose scenario, for resolutions (0.1, 0.1).
ExamplePoses == {SE2(50, 50, 10), SE2(90, 20, 50), SE2(150, 50, 10)}

\* Resolutions and coordinates of the pose hashers of SpecHash.
PoseRes == {1000, 100}
PoseVals == {-50, 150}

\* The constructions and calls of Spec.
LineResolutions == {<<1000>>, <<-1000>>, <<0>>}
LineStates == {<<-300>>, <<0>>}
SpaceResolutions == {<<100, 100, 1000>>}
SpaceStates == {<<50, 50, 10>>, <<150, 50, 10>>}
StatesFor(h) ==
  IF h.shape = "se2" THEN {SE2(s[1], s[2], s[3]) : s \in SpaceStates}
  ELSE IF Len(h.resolution_) = 1 THEN LineStates
  ELSE SpaceStates

\* ------------------------------------------------------------------- state

VARIABLES
  digits,     \* numeric_limits<size_t>::digits of the platform
  build,      \* "none", "ok" or "error": the translation of the header
  hashers,    \* the hasher objects alive, in order of construction
  given,      \* per hasher, the constructor called and its arguments
  pc,         \* per thread: "idle", "called", "done" or "trapped"
  self,       \* per thread, the hasher its call is on (0: none)
  arg,        \* per thread, the state passed to operator()
  ret,        \* per thread, the word its last call returned
  ub,         \* per thread, whether its last call converted an unrepresentable value
  dims,       \* SpecShift: sizeof...(Ids) of the instantiation of hash_impl
  axis,       \* SpecShift: the number of axes instantiated so far
  performed   \* SpecShift: the shifts of the last floor_and_fibo_hash<kBits, I>

vars == <<digits, build, hashers, given, pc, self, arg, ret, ub, dims, axis, performed>>
call_vars == <<pc, self, arg, ret, ub>>
shift_vars == <<dims, axis, performed>>

NoCalls ==
  /\ pc = [t \in Threads |-> "idle"]
  /\ self = [t \in Threads |-> 0]
  /\ arg = [t \in Threads |-> <<>>]
  /\ ret = [t \in Threads |-> <<>>]
  /\ ub = [t \in Threads |-> FALSE]

NoShifts == dims = 0 /\ axis = 0 /\ performed = <<>>

\* ------------------------------------------------------------------- Spec

Init ==
  /\ digits \in Platforms
  /\ build = "none"
  /\ hashers = <<>>
  /\ given = <<>>
  /\ NoCalls
  /\ NoShifts

\* Translating a unit that includes the header: the inline operator() of
\* spatial_hash<Sophus::SE2d> instantiates hash_impl and floor_and_fibo_hash,
\* and with them the kFib lambda.
Compile ==
  /\ build = "none"
  /\ build' = IF kFibDefined(digits) THEN "ok" ELSE "error"
  /\ UNCHANGED <<digits, hashers, given, call_vars, shift_vars>>

Construct(h, how) ==
  /\ build = "ok"
  /\ Len(hashers) < MaxHashers
  /\ hashers' = Append(hashers, h)
  /\ given' = Append(given, how)
  /\ UNCHANGED <<digits, build, call_vars, shift_vars>>

ConstructArray ==
  \E r \in LineResolutions :
     Construct(spatial_hash_array(r), [ctor |-> "array", args |-> r])

ConstructTuple ==
  \E r \in SpaceResolutions :
     Construct(spatial_hash_tuple(r), [ctor |-> "tuple", args |-> r])

ConstructSE2xyt ==
  \E r \in SpaceResolutions :
     Construct(spatial_hash_se2_xyt(r[1], r[2], r[3]), [ctor |-> "se2_xyt", args |-> r])

ConstructSE2la ==
  \E r \in SpaceResolutions :
     Construct(spatial_hash_se2_la(r[1], r[3]), [ctor |-> "se2_la", args |-> <<r[1], r[3]>>])

ConstructSE2Default ==
  Construct(spatial_hash_se2_default, [ctor |-> "se2_default", args |-> <<>>])

CopyConstruct ==
  \E i \in 1..Len(hashers) : Construct(copy(hashers[i]), given[i])

\* A thread calls operator() of a hasher: the call holds a reference to the
\* hasher and the state.
Invoke(t) ==
  /\ pc[t] \in {"idle", "done"}
  /\ \E i \in 1..Len(hashers) : \E s \in StatesFor(hashers[i]) :
       /\ self' = [self EXCEPT ![t] = i]
       /\ arg' = [arg EXCEPT ![t] = s]
  /\ pc' = [pc EXCEPT ![t] = "called"]
  /\ ret' = [ret EXCEPT ![t] = <<>>]
  /\ ub' = [ub EXCEPT ![t] = FALSE]
  /\ UNCHANGED <<digits, build, hashers, given, shift_vars>>

\* operator() runs hash_impl on the hasher's resolution_ and returns (const:
\* the hasher is left alone).  An undefined conversion may trap instead.
Return(t) ==
  /\ pc[t] = "called"
  /\ LET h == hashers[self[t]] IN
     \E c \in Conversions(Operand(h, arg[t]), Resolution(h), digits) :
       IF \E i \in 1..Len(c) : c[i].trap
       THEN /\ pc' = [pc EXCEPT ![t] = "trapped"]
            /\ ub' = [ub EXCEPT ![t] = TRUE]
            /\ UNCHANGED ret
       ELSE /\ pc' = [pc EXCEPT ![t] = "done"]
            /\ ret' = [ret EXCEPT ![t] = hash_impl(c, digits)]
            /\ ub' = [ub EXCEPT ![t] = \E i \in 1..Len(c) : c[i].ub]
  /\ UNCHANGED <<digits, build, hashers, given, self, arg, shift_vars>>

Next ==
  \/ Compile
  \/ ConstructArray
  \/ ConstructTuple
  \/ ConstructSE2xyt
  \/ ConstructSE2la
  \/ ConstructSE2Default
  \/ CopyConstruct
  \/ \E t \in Threads : Invoke(t)
  \/ \E t \in Threads : Return(t)

Spec == Init /\ [][Next]_vars

\* --------------------------------------------------------------- SpecHash
\* The hash as a pure function: the hashers and the two calls are drawn by the
\* initial state, and the calls return.

Called(hs, how, on, states) ==
  /\ hashers = hs
  /\ given = how
  /\ pc = [t \in Threads |-> "called"]
  /\ self = on
  /\ arg = states
  /\ ret = [t \in Threads |-> <<>>]
  /\ ub = [t \in Threads |-> FALSE]

GridInit ==
  \E D \in 1..MaxDim : \E r \in GridResolutions(D) : \E v, w \in Grid(D) :
     Called(<<spatial_hash_array(r)>>, <<[ctor |-> "array", args |-> r]>>,
            <<1, 1>>, <<v, w>>)

ExampleInit ==
  \/ \E v, w \in ExampleLine :
       \/ Called(<<spatial_hash_array(<<1000>>)>>,
                 <<[ctor |-> "array", args |-> <<1000>>]>>, <<1, 1>>, <<v, w>>)
       \/ Called(<<spatial_hash_tuple(<<1000>>)>>,
                 <<[ctor |-> "tuple", args |-> <<1000>>]>>, <<1, 1>>, <<v, w>>)
  \/ \E v, w \in ExampleArrays :
       \/ Called(<<spatial_hash_array(<<1000, 1000>>)>>,
                 <<[ctor |-> "array", args |-> <<1000, 1000>>]>>, <<1, 1>>, <<v, w>>)
       \/ Called(<<spatial_hash_tuple(<<1000, 1000>>)>>,
                 <<[ctor |-> "tuple", args |-> <<1000, 1000>>]>>, <<1, 1>>, <<v, w>>)
  \/ \E v, w \in ExamplePoses :
       Called(<<spatial_hash_se2_la(100, 100)>>,
              <<[ctor |-> "se2_la", args |-> <<100, 100>>]>>, <<1, 1>>, <<v, w>>)

PoseConstructions ==
  {[h |-> spatial_hash_se2_xyt(r[1], r[2], r[3]), how |-> [ctor |-> "se2_xyt", args |-> r]] :
      r \in [1..3 -> PoseRes]}
    \cup {[h |-> spatial_hash_se2_la(r[1], r[2]), how |-> [ctor |-> "se2_la", args |-> r]] :
      r \in [1..2 -> PoseRes]}
    \cup {[h |-> spatial_hash_se2_default, how |-> [ctor |-> "se2_default", args |-> <<>>]]}

PoseInit ==
  \E p \in PoseConstructions : \E r \in [1..3 -> PoseRes] : \E s \in [1..3 -> PoseVals] :
     Called(<<p.h, spatial_hash_tuple(r)>>, <<p.how, [ctor |-> "tuple", args |-> r]>>,
            <<1, 2>>, <<SE2(s[1], s[2], s[3]), s>>)

InitHash ==
  /\ digits \in {32, 64}
  /\ build = "ok"
  /\ NoShifts
  /\ (GridInit \/ ExampleInit \/ PoseInit)

NextHash == \E t \in Threads : Return(t)

SpecHash == InitHash /\ [][NextHash]_vars

\* -------------------------------------------------------------- SpecShift
\* The instantiations floor_and_fibo_hash<kBits, Ids> of one hash_impl, as a
\* function of the width and the number of axes alone.

InitShift ==
  /\ digits \in {32, 64}
  /\ build = "ok"
  /\ hashers = <<>>
  /\ given = <<>>
  /\ NoCalls
  /\ dims \in 1..MaxAxes
  /\ axis = 0
  /\ performed = <<>>

\* The next axis of the index sequence: Ids = axis.
Instantiate ==
  /\ axis < dims
  /\ performed' = Shifts(digits, kBits(digits, dims), axis)
  /\ axis' = axis + 1
  /\ UNCHANGED <<digits, build, hashers, given, call_vars, dims>>

NextShift == Instantiate

SpecShift == InitShift /\ [][NextShift]_vars

\* ---------------------------------------------------------------- properties

Done(t) == pc[t] = "done"

\* An all-zero word of W bits.
ZeroWord(W) == [j \in 1..W |-> 0]

\* The hasher of thread t's call, its resolution and the axes it hashes.
HasherOf(t) == hashers[self[t]]
ResolutionOf(t) == Resolution(HasherOf(t))
AxesOf(t) == Operand(HasherOf(t), arg[t])

\* The operands of the fold of thread t's call, when every conversion is defined.
TermsOf(t) ==
  AxisTerms(CHOOSE c \in Conversions(AxesOf(t), ResolutionOf(t), digits) : TRUE, digits)

Positive(r) == \A i \in 1..Len(r) : r[i] > 0

\* floor(v / r) for a resolution r other than zero.
Bucket(v, r) == v \div r

\* The axes on which two calls under the resolution r fall in different buckets.
Apart(v, w, r) == {i \in 1..Len(r) : Bucket(v[i], r[i]) # Bucket(w[i], r[i])}

\* Two finished calls under equal resolutions.
Comparable(t, u) ==
  /\ Done(t) /\ Done(u)
  /\ ResolutionOf(t) = ResolutionOf(u)

\* The resolution the constructor arguments stand for.
GivenResolution(g) ==
  IF g.ctor = "se2_la" THEN <<g.args[1], g.args[1], g.args[2]>>
  ELSE IF g.ctor = "se2_default" THEN <<1000, 1000, 1000>>
  ELSE g.args

\* C1: under a resolution with every element positive, two states whose
\* coordinates floor-divide to the same quotient on every axis hash to the
\* same word.
C1_BucketEquivalence ==
  \A t, u \in Threads :
     (Comparable(t, u) /\ Positive(ResolutionOf(t))
        /\ Apart(AxesOf(t), AxesOf(u), ResolutionOf(t)) = {})
     => ret[t] = ret[u]

C1_Witness ==
  /\ Done(1) /\ Done(2)
  /\ HasherOf(1) = spatial_hash_array(<<1000, 500>>)
  /\ arg[1] = <<-1000, 0>> /\ arg[2] = <<-300, 300>>
  /\ ret[1] = ret[2]

\* C2: two states whose floored quotients differ on exactly one axis hash to
\* different words; so do the arrays (1.0, 2.0) and (2.0, 2.0) under (1.0, 1.0)
\* and the poses (0.05, 0.05, 0.01) and (0.15, 0.05, 0.01) under (0.1, 0.1, 0.1).
C2_SingleAxisSeparation ==
  \A t, u \in Threads :
     (Comparable(t, u)
        /\ Cardinality(Apart(AxesOf(t), AxesOf(u), ResolutionOf(t))) = 1)
     => ret[t] # ret[u]

C2_Witness ==
  /\ Done(1) /\ Done(2)
  /\ HasherOf(1) = spatial_hash_se2_xyt(100, 100, 100)
  /\ arg[1] = SE2(50, 50, 10) /\ arg[2] = SE2(150, 50, 10)
  /\ ret[1] # ret[2]

\* C3: a negative coordinate is floored toward negative infinity.  When two
\* states differ on one axis k only, and v is negative and no multiple of the
\* resolution there, v hashes like floor(v / r) * r and unlike every w >= 0;
\* under resolution 1.0, -0.3 hashes like -1.0 and -0.999 and unlike 0.0 and 0.3.
C3_NegativeFloor ==
  \A t, u \in Threads : \A k \in 1..Len(ResolutionOf(t)) :
     LET r == ResolutionOf(t)[k]
         v == AxesOf(t)[k]
         w == AxesOf(u)[k]
     IN  (Comparable(t, u) /\ Positive(ResolutionOf(t))
            /\ (\A i \in 1..Len(ResolutionOf(t)) : i # k => AxesOf(t)[i] = AxesOf(u)[i])
            /\ v < 0 /\ v % r # 0)
         => /\ (w = v - (v % r)) => ret[t] = ret[u]
            /\ (w >= 0) => ret[t] # ret[u]
            /\ (r = 1000 /\ v = -300 /\ w \in {-1000, -999}) => ret[t] = ret[u]
            /\ (r = 1000 /\ v = -300 /\ w \in {0, 300}) => ret[t] # ret[u]

C3_Witness ==
  /\ Done(1) /\ Done(2)
  /\ HasherOf(1) = spatial_hash_array(<<1000>>)
  /\ arg[1] = <<-300>> /\ arg[2] = <<-999>>
  /\ ret[1] = ret[2]

\* C4: no call changes the resolution of any hasher, which stays the one given
\* at construction, and under every interleaving of calls, constructions and
\* copies, calls on the same state return the same word, whether issued on one
\* shared hasher, on a copy, or on hashers built from equal resolutions.
C4_PureUnderInterleaving ==
  /\ \A i \in 1..Len(hashers) : Resolution(hashers[i]) = GivenResolution(given[i])
  /\ \A t, u \in Threads :
        (/\ pc[t] \in {"done", "trapped"} /\ Done(u)
         /\ Positive(GivenResolution(given[self[t]]))
         /\ GivenResolution(given[self[t]]) = GivenResolution(given[self[u]])
         /\ AxesOf(t) = AxesOf(u))
        => Done(t) /\ ret[t] = ret[u]

C4_Witness ==
  /\ Done(1) /\ Done(2)
  /\ self[1] # self[2]
  /\ given[self[1]] = given[self[2]]
  /\ given[self[1]].ctor = "array" /\ Positive(given[self[1]].args)
  /\ arg[1] = arg[2]
  /\ ret[1] = ret[2]

\* C5: a pose hasher returns for the pose (x, y, theta) the word the tuple
\* hasher of the resolution its constructor arguments stand for returns for
\* the tuple (x, y, theta): (rx, ry, rt) as given, (l, a) as (l, l, a), and
\* no arguments as (1.0, 1.0, 1.0).
C5_PoseDelegation ==
  \A t, u \in Threads :
     (/\ Done(t) /\ Done(u)
      /\ HasherOf(t).shape = "se2" /\ HasherOf(u).shape = "tuple"
      /\ HasherOf(u).resolution_ = GivenResolution(given[self[t]])
      /\ arg[u] = <<arg[t].translation[1], arg[t].translation[2], arg[t].so2_log>>)
     => ret[t] = ret[u]

C5_Witness ==
  /\ Done(1) /\ Done(2)
  /\ given[1] = [ctor |-> "se2_la", args |-> <<100, 1000>>]
  /\ HasherOf(2) = spatial_hash_tuple(<<100, 100, 1000>>)
  /\ arg[1] = SE2(-50, 150, -50) /\ arg[2] = <<-50, 150, -50>>
  /\ ret[1] = ret[2]

\* C6: with a word width other than 32 or 64 bits the build is rejected: no
\* hasher is ever constructed and no call ever runs.
C6_WidthPrecondition ==
  (build = "ok" \/ hashers # <<>> \/ \E t \in Threads : pc[t] # "idle")
     => digits \in {32, 64}

C6_Witness == digits = 16 /\ build = "error" /\ hashers = <<>>

\* C7: every call, whatever the resolution (zero and negative ones included),
\* completes with a defined hash word: it never traps and never converts a
\* value the signed integer cannot represent.
C7_NoRuntimeFailure ==
  \A t \in Threads : pc[t] # "trapped" /\ ~ub[t]

\* The reference of C8: K * q modulo 2^W on signed limbs, a rotation that
\* moves bit j to bit (j + s) mod W, and the parity of the bits of the axes.
RECURSIVE RefMulFrom(_, _, _, _)
RefMulFrom(K, q, j, carry) ==
  IF j > Len(K) THEN <<>>
  ELSE LET c == K[j] * q + carry
       IN  <<c % 256>> \o RefMulFrom(K, q, j + 1, c \div 256)

RefProducts ==
  [W \in {32, 64} |->
     [q \in (-MaxBucket)..MaxBucket |-> BitsOfBytes(RefMulFrom(kFib(W), q, 1, 0))]]

RefHash(v, r, W) ==
  LET D == Len(v)
      b == W \div D
  IN  [j \in 1..W |->
         Cardinality({i \in 1..D :
            RefProducts[W][Bucket(v[i], r[i])][((j - 1 - b * (i - 1)) % W) + 1] = 1}) % 2]

\* C8: the hash of v under r is the XOR over the axes i of
\* rotl((K * (floor(v[i] / r[i]) mod 2^W)) mod 2^W, (W div D) * i).
C8_ReferenceFormula ==
  \A t \in Threads :
     (Done(t) /\ ~ub[t]) => ret[t] = RefHash(AxesOf(t), ResolutionOf(t), digits)

C8_Witness ==
  /\ Done(1)
  /\ HasherOf(1) = spatial_hash_array(<<1000, 500>>)
  /\ arg[1] = <<-300, 300>>
  /\ ret[1] = RefHash(<<-300, 300>>, <<1000, 500>>, digits)
  /\ ret[1] # ZeroWord(digits)

\* C9: when the axes divide the word evenly, the contribution of axis i has
\* bits set only in the band [bits_per_axis * i, bits_per_axis * (i + 1)).
C9_DisjointBands ==
  \A t \in Threads :
     (Done(t) /\ ~ub[t] /\ digits % Len(AxesOf(t)) = 0)
     => LET D == Len(AxesOf(t))
            b == digits \div D
            contribution == TermsOf(t)
        IN  \A i \in 1..D : \A j \in 1..digits :
               contribution[i][j] = 1 => (b * (i - 1) <= j - 1 /\ j - 1 < b * i)

\* C10: the rotation amount s = (W div D) * i of axis i is in 0..W-1; when it
\* is not 0 the left shift is by s and the right shift by W - s, both strictly
\* between 0 and W; when it is 0 no shift is performed.
C10_ShiftsInRange ==
  axis >= 1 =>
    LET s == (digits \div dims) * (axis - 1)
    IN  /\ 0 <= s /\ s < digits
        /\ (s = 0) => performed = <<>>
        /\ (s # 0) => /\ performed = <<s, digits - s>>
                      /\ \A k \in 1..2 : 0 < performed[k] /\ performed[k] < digits

C10_Witness ==
  /\ dims > digits /\ axis = dims /\ performed = <<>>

====
